---------------------------- MODULE Spec2Model ----------------------------
(***************************************************************************)
(* A model of the Ganesa CRM backend: the category and subcategory routers *)
(* (routes/categories.js, routes/subcategories.js), their mongoose schemas *)
(* and the customer handlers of the server file.                           *)
(*                                                                         *)
(* A request handler is a sequence of store round trips; every `await` of  *)
(* a handler is one step of the model.  A step that answers the request    *)
(* leaves the slot at pc = "done" with the HTTP status in `code`; Finish   *)
(* then frees the slot.  Spec runs one request at a time, SpecConc lets    *)
(* the steps of several requests interleave.                               *)
(*                                                                         *)
(* Names are sequences of one-character strings, so that trimming and the  *)
(* regular expression the handlers build from a name are computed, not     *)
(* assumed.  The fields url, description and createdAt of categories and   *)
(* subcategories are read by no guard of any handler and are left out.     *)
(***************************************************************************)
EXTENDS Integers, Sequences, FiniteSets, TLC

VARIABLES
    categories,     \* the categories collection: set of [id, name]
    subcategories,  \* the subcategories collection: set of [id, name, category]
    customers,      \* the customers collection: set of customer documents
    nextCat,        \* number of category ids the store has generated
    nextSub,        \* number of subcategory ids the store has generated
    nextCust,       \* number of customer ids the store has generated
    now,            \* the clock read by new Date()
    deletedCats,    \* history: ids of categories removed by findByIdAndDelete
    req,            \* request slots: the handler position and locals of each
    last,           \* the last customer or login request and the status it was answered with
    tokens          \* history: the payloads of the credentials jwt.sign has issued

vars == <<categories, subcategories, customers, nextCat, nextSub, nextCust,
          now, deletedCats, req, last, tokens>>

-----------------------------------------------------------------------------
(* Bounds *)

MaxCats == 2
MaxSubs == 2
MaxInFlight == 2
MaxCustomers == 2
MaxWrites == 3

-----------------------------------------------------------------------------
(* Identifiers.  The store generates ObjectIds; "x9" is a well-formed id   *)
(* the store never generates, "bad" is not a well-formed ObjectId.         *)

CatIdPool == <<"c1", "c2", "c3", "c4">>
SubIdPool == <<"s1", "s2", "s3", "s4">>

CatIdSet == {CatIdPool[i] : i \in 1..MaxCats}
SubIdSet == {SubIdPool[i] : i \in 1..MaxSubs}

IsValidObjectId(id) == id # "bad"

CategoryIdInputs == CatIdSet \cup {"x9", "bad"}
SubCategoryIdInputs == SubIdSet \cup {"x9", "bad"}
CategoryRefInputs == CatIdSet \cup {"x9", "bad"}

-----------------------------------------------------------------------------
(* Names, trimming and the regular expression built from a name *)

NameInputs ==
    { <<>>, <<"a">>, <<"A">>, <<"a", "+">>, <<"A", "+">>, <<"+">>, <<" ", "a">> }

ConcNameInputs == { <<"a">>, <<"A">> }

LowerChar(c) == IF c = "A" THEN "a" ELSE c

LowerName(s) == [i \in 1..Len(s) |-> LowerChar(s[i])]

\* equality of two names when letter case is ignored
EqIgnoreCase(s, t) == LowerName(s) = LowerName(t)

RECURSIVE TrimLeft(_)
TrimLeft(s) ==
    IF s # <<>> /\ Head(s) = " " THEN TrimLeft(Tail(s)) ELSE s

RECURSIVE TrimRight(_)
TrimRight(s) ==
    IF s # <<>> /\ s[Len(s)] = " " THEN TrimRight(SubSeq(s, 1, Len(s) - 1)) ELSE s

Trim(s) == TrimRight(TrimLeft(s))

\* new RegExp(`^${name}$`, 'i') throws a SyntaxError ("Nothing to repeat")
\* when a quantifier follows the ^ assertion or another quantifier
RegExpCompiles(p) ==
    \A i \in 1..Len(p) : p[i] = "+" => (i > 1 /\ p[i - 1] # "+")

\* whether p[i..] matches s[j..] up to the end of s, ignoring case; an atom is
\* a literal character, optionally followed by the quantifier +
RECURSIVE MatchFrom(_, _, _, _)
MatchFrom(p, i, s, j) ==
    IF i > Len(p) THEN j > Len(s)
    ELSE IF i < Len(p) /\ p[i + 1] = "+"
         THEN /\ j <= Len(s)
              /\ LowerChar(p[i]) = LowerChar(s[j])
              /\ (MatchFrom(p, i + 2, s, j + 1) \/ MatchFrom(p, i, s, j + 1))
         ELSE /\ j <= Len(s)
              /\ LowerChar(p[i]) = LowerChar(s[j])
              /\ MatchFrom(p, i + 1, s, j + 1)

\* { $regex: new RegExp(`^${name}$`, 'i') } applied to a stored name
NameRegexMatches(name, stored) == MatchFrom(name, 1, stored, 1)

-----------------------------------------------------------------------------
(* The store *)

CatIds == {c.id : c \in categories}
SubIds == {s.id : s \in subcategories}

CategoryById(id) == CHOOSE c \in categories : c.id = id
SubCategoryById(id) == CHOOSE s \in subcategories : s.id = id

\* mutant: the categories collection has no unique index
CategoryKeyTaken_NoIndex(name, selfId) == FALSE

\* categorySchema: name is unique (an index on the exact stored value)
CategoryKeyTaken(name, selfId) ==
    \E c \in categories : c.id # selfId /\ c.name = name

\* subCategorySchema.index({ name: 1, category: 1 }, { unique: true })
SubCategoryKeyTaken(name, cat, selfId) ==
    \E s \in subcategories : s.id # selfId /\ s.name = name /\ s.category = cat

\* Category.findOne({ _id: { $ne: selfId }, name: { $regex: ... } })
CategoryFindOneByName(name, selfId) ==
    \E c \in categories : c.id # selfId /\ NameRegexMatches(name, c.name)

\* SubCategory.findOne({ _id: { $ne: selfId }, name: { $regex: ... }, category })
SubCategoryFindOneByName(name, cat, selfId) ==
    \E s \in subcategories :
        s.id # selfId /\ s.category = cat /\ NameRegexMatches(name, s.name)

\* SubCategory.countDocuments({ category: id })
SubCategoriesCount(id) == Cardinality({s \in subcategories : s.category = id})

-----------------------------------------------------------------------------
(* Request slots *)

Slots == 1..MaxInFlight

Idle == [op |-> "none", pc |-> "idle", id |-> "", name |-> <<>>, cat |-> "",
         sname |-> <<>>, scat |-> "", code |-> 0]

NoRequest == [op |-> "none", id |-> "", body |-> <<>>, code |-> 0, result |-> {}]

Request(op, id, name, cat) == [Idle EXCEPT !.op = op, !.id = id, !.name = name, !.cat = cat]

\* the request of slot r answers with the status code k
Answer(q, k) == [q EXCEPT !.pc = "done", !.code = k]

\* the request of slot r suspends at the await named p
Await(q, p) == [q EXCEPT !.pc = p]

StoreUnchanged == UNCHANGED <<categories, subcategories, customers, nextCat,
                              nextSub, nextCust, now, deletedCats, last, tokens>>

Finish(r) ==
    /\ req[r].pc = "done"
    /\ req' = [req EXCEPT ![r] = Idle]
    /\ StoreUnchanged


-----------------------------------------------------------------------------
(* routes/categories.js *)

\* creates still waiting for their save; the model stops accepting creates
\* when the id pool of the bound would run out
PendingCategoryCreates ==
    Cardinality({s \in Slots : req[s].op = "createCategory" /\ req[s].pc = "save"})

PendingSubCategoryCreates ==
    Cardinality({s \in Slots : req[s].op = "createSubCategory"
                                /\ req[s].pc \in {"check", "save"}})

\* POST /api/categories: validation, then the case-insensitive findOne
CreateCategoryStart(r, rawName) ==
    /\ req[r].pc = "idle"
    /\ nextCat + PendingCategoryCreates < MaxCats
    /\ LET name == Trim(rawName)
           q == Request("createCategory", "", name, "")
       IN req' = [req EXCEPT ![r] =
                IF name = <<>> THEN Answer(q, 400)
                ELSE IF ~RegExpCompiles(name) THEN Answer(q, 500)
                ELSE IF CategoryFindOneByName(name, "") THEN Answer(q, 400)
                ELSE Await(q, "save")]
    /\ StoreUnchanged

\* POST /api/categories: category.save()
CreateCategorySave(r) ==
    /\ req[r].op = "createCategory" /\ req[r].pc = "save"
    /\ LET name == Trim(req[r].name)
       IN IF CategoryKeyTaken(name, "")
          THEN /\ req' = [req EXCEPT ![r] = Answer(@, 500)]
               /\ UNCHANGED <<categories, nextCat>>
          ELSE /\ categories' = categories \cup
                      {[id |-> CatIdPool[nextCat + 1], name |-> name]}
               /\ nextCat' = nextCat + 1
               /\ req' = [req EXCEPT ![r] = Answer([@ EXCEPT !.id = CatIdPool[nextCat + 1]], 201)]
    /\ UNCHANGED <<subcategories, customers, nextSub, nextCust, now, deletedCats, last, tokens>>

\* PUT /api/categories/:id: validation, Category.findById, and the decision
\* whether the uniqueness lookup is needed
UpdateCategoryStart(r, id, rawName) ==
    /\ req[r].pc = "idle"
    /\ LET name == Trim(rawName)
           q == Request("updateCategory", id, name, "")
       IN req' = [req EXCEPT ![r] =
                IF name = <<>> THEN Answer(q, 400)
                ELSE IF ~IsValidObjectId(id) THEN Answer(q, 500)
                ELSE IF id \notin CatIds THEN Answer(q, 404)
                ELSE LET found == [q EXCEPT !.sname = CategoryById(id).name]
                     IN IF name # found.sname
                        THEN IF ~RegExpCompiles(name) THEN Answer(found, 500)
                             ELSE Await(found, "check")
                        ELSE Await(found, "save")]
    /\ StoreUnchanged

\* mutant: the new name is written before the uniqueness lookup is made
UpdateCategoryCheck_SavesFirst(r) ==
    /\ req[r].op = "updateCategory" /\ req[r].pc = "check"
    /\ categories' = {IF c.id = req[r].id THEN [c EXCEPT !.name = req[r].name] ELSE c :
                          c \in categories}
    /\ req' = [req EXCEPT ![r] =
                IF CategoryFindOneByName(@.name, @.id) THEN Answer(@, 400)
                ELSE Await(@, "save")]
    /\ UNCHANGED <<subcategories, customers, nextCat, nextSub, nextCust, now,
                   deletedCats, last, tokens>>

\* PUT /api/categories/:id: Category.findOne({ _id: { $ne: id }, name: regex })
UpdateCategoryCheck(r) ==
    /\ req[r].op = "updateCategory" /\ req[r].pc = "check"
    /\ req' = [req EXCEPT ![r] =
                IF CategoryFindOneByName(@.name, @.id) THEN Answer(@, 400)
                ELSE Await(@, "save")]
    /\ StoreUnchanged

\* PUT /api/categories/:id: category.save() of the loaded document; only the
\* paths that differ from the loaded values are written
UpdateCategorySave(r) ==
    /\ req[r].op = "updateCategory" /\ req[r].pc = "save"
    /\ LET q == req[r]
           name == Trim(q.name)
       IN IF q.id \notin CatIds
          THEN /\ req' = [req EXCEPT ![r] = Answer(q, 500)]
               /\ UNCHANGED categories
          ELSE IF name # q.sname /\ CategoryKeyTaken(name, q.id)
          THEN /\ req' = [req EXCEPT ![r] = Answer(q, 500)]
               /\ UNCHANGED categories
          ELSE /\ categories' =
                     {IF c.id = q.id /\ name # q.sname
                         THEN [c EXCEPT !.name = name] ELSE c : c \in categories}
               /\ req' = [req EXCEPT ![r] = Answer(q, 200)]
    /\ UNCHANGED <<subcategories, customers, nextCat, nextSub, nextCust, now, deletedCats, last, tokens>>

\* DELETE /api/categories/:id: Category.findById
DeleteCategoryStart(r, id) ==
    /\ req[r].pc = "idle"
    /\ LET q == Request("deleteCategory", id, <<>>, "")
       IN req' = [req EXCEPT ![r] =
                IF ~IsValidObjectId(id) THEN Answer(q, 500)
                ELSE IF id \notin CatIds THEN Answer(q, 404)
                ELSE Await(q, "count")]
    /\ StoreUnchanged

\* mutant: the delete does not look at the count of subcategories
DeleteCategoryCount_Ignored(r) ==
    /\ req[r].op = "deleteCategory" /\ req[r].pc = "count"
    /\ req' = [req EXCEPT ![r] = Await(@, "delete")]
    /\ StoreUnchanged

\* DELETE /api/categories/:id: SubCategory.countDocuments({ category: id })
DeleteCategoryCount(r) ==
    /\ req[r].op = "deleteCategory" /\ req[r].pc = "count"
    /\ req' = [req EXCEPT ![r] =
                IF SubCategoriesCount(@.id) > 0 THEN Answer(@, 400)
                ELSE Await(@, "delete")]
    /\ StoreUnchanged

\* mutant: the delete cascades to the customers of the category
DeleteCategoryDelete_Cascade(r) ==
    /\ req[r].op = "deleteCategory" /\ req[r].pc = "delete"
    /\ categories' = {c \in categories : c.id # req[r].id}
    /\ customers' = {c \in customers : c["serviceCategory"] # <<req[r].id>>}
    /\ deletedCats' = deletedCats \cup ({req[r].id} \cap CatIds)
    /\ req' = [req EXCEPT ![r] = Answer(@, 200)]
    /\ UNCHANGED <<subcategories, nextCat, nextSub, nextCust, now, last, tokens>>

\* DELETE /api/categories/:id: Category.findByIdAndDelete
DeleteCategoryDelete(r) ==
    /\ req[r].op = "deleteCategory" /\ req[r].pc = "delete"
    /\ categories' = {c \in categories : c.id # req[r].id}
    /\ deletedCats' = deletedCats \cup ({req[r].id} \cap CatIds)
    /\ req' = [req EXCEPT ![r] = Answer(@, 200)]
    /\ UNCHANGED <<subcategories, customers, nextCat, nextSub, nextCust, now, last, tokens>>

\* GET /api/categories/:id: Category.findById, which throws a CastError on an
\* id that is not an ObjectId; the catch answers 500
GetCategory(r, id) ==
    /\ req[r].pc = "idle"
    /\ LET q == Request("getCategory", id, <<>>, "")
       IN req' = [req EXCEPT ![r] =
                IF ~IsValidObjectId(id) THEN Answer(q, 500)
                ELSE IF id \notin CatIds THEN Answer(q, 404)
                ELSE Answer(q, 200)]
    /\ StoreUnchanged

-----------------------------------------------------------------------------
(* routes/subcategories.js *)

\* mutant: the validator checks the format of the id only
CategoryIdValidates_FormatOnly(cat) == IsValidObjectId(cat)

\* body('categoryId').notEmpty().custom(...): the id is well-formed and
\* Category.findById finds it
CategoryIdValidates(cat) == IsValidObjectId(cat) /\ cat \in CatIds

\* POST /api/subcategories: the validation chain (with its Category.findById)
\* and the construction of the lookup's regular expression
CreateSubCategoryStart(r, rawName, cat) ==
    /\ req[r].pc = "idle"
    /\ nextSub + PendingSubCategoryCreates < MaxSubs
    /\ LET name == Trim(rawName)
           q == Request("createSubCategory", "", name, cat)
       IN req' = [req EXCEPT ![r] =
                IF name = <<>> \/ ~CategoryIdValidates(cat) THEN Answer(q, 400)
                ELSE IF ~RegExpCompiles(name) THEN Answer(q, 500)
                ELSE Await(q, "check")]
    /\ StoreUnchanged

\* POST /api/subcategories: SubCategory.findOne({ name: regex, category })
CreateSubCategoryCheck(r) ==
    /\ req[r].op = "createSubCategory" /\ req[r].pc = "check"
    /\ req' = [req EXCEPT ![r] =
                IF SubCategoryFindOneByName(@.name, @.cat, "") THEN Answer(@, 400)
                ELSE Await(@, "save")]
    /\ StoreUnchanged

\* POST /api/subcategories: subcategory.save(); the populate that follows
\* reads only
CreateSubCategorySave(r) ==
    /\ req[r].op = "createSubCategory" /\ req[r].pc = "save"
    /\ LET name == Trim(req[r].name)
           cat == req[r].cat
       IN IF SubCategoryKeyTaken(name, cat, "")
          THEN /\ req' = [req EXCEPT ![r] = Answer(@, 500)]
               /\ UNCHANGED <<subcategories, nextSub>>
          ELSE /\ subcategories' = subcategories \cup
                      {[id |-> SubIdPool[nextSub + 1], name |-> name, category |-> cat]}
               /\ nextSub' = nextSub + 1
               /\ req' = [req EXCEPT ![r] = Answer([@ EXCEPT !.id = SubIdPool[nextSub + 1]], 201)]
    /\ UNCHANGED <<categories, customers, nextCat, nextCust, now, deletedCats, last, tokens>>

\* PUT /api/subcategories/:id: the validation chain (with its Category.findById)
UpdateSubCategoryStart(r, id, rawName, cat) ==
    /\ req[r].pc = "idle"
    /\ LET name == Trim(rawName)
           q == Request("updateSubCategory", id, name, cat)
       IN req' = [req EXCEPT ![r] =
                IF ~IsValidObjectId(id) \/ name = <<>> \/ ~CategoryIdValidates(cat)
                THEN Answer(q, 400)
                ELSE Await(q, "find")]
    /\ StoreUnchanged

\* PUT /api/subcategories/:id: SubCategory.findById and the decision whether
\* the uniqueness lookup is needed
UpdateSubCategoryFind(r) ==
    /\ req[r].op = "updateSubCategory" /\ req[r].pc = "find"
    /\ LET q == req[r]
       IN req' = [req EXCEPT ![r] =
                IF q.id \notin SubIds THEN Answer(q, 404)
                ELSE LET found == [q EXCEPT !.sname = SubCategoryById(q.id).name,
                                            !.scat = SubCategoryById(q.id).category]
                     IN IF q.name # found.sname \/ q.cat # found.scat
                        THEN IF ~RegExpCompiles(q.name) THEN Answer(found, 500)
                             ELSE Await(found, "check")
                        ELSE Await(found, "save")]
    /\ StoreUnchanged

\* PUT /api/subcategories/:id: SubCategory.findOne({ _id: { $ne: id }, ... })
UpdateSubCategoryCheck(r) ==
    /\ req[r].op = "updateSubCategory" /\ req[r].pc = "check"
    /\ req' = [req EXCEPT ![r] =
                IF SubCategoryFindOneByName(@.name, @.cat, @.id) THEN Answer(@, 400)
                ELSE Await(@, "save")]
    /\ StoreUnchanged

\* PUT /api/subcategories/:id: subcategory.save() of the loaded document; only
\* the paths that differ from the loaded values are written
UpdateSubCategorySave(r) ==
    /\ req[r].op = "updateSubCategory" /\ req[r].pc = "save"
    /\ LET q == req[r]
           name == Trim(q.name)
       IN IF q.id \notin SubIds
          THEN /\ req' = [req EXCEPT ![r] = Answer(q, 500)]
               /\ UNCHANGED subcategories
          ELSE LET cur == SubCategoryById(q.id)
                   new == [cur EXCEPT
                             !.name = IF name # q.sname THEN name ELSE @,
                             !.category = IF q.cat # q.scat THEN q.cat ELSE @]
               IN IF new # cur /\ SubCategoryKeyTaken(new.name, new.category, q.id)
                  THEN /\ req' = [req EXCEPT ![r] = Answer(q, 500)]
                       /\ UNCHANGED subcategories
                  ELSE /\ subcategories' = (subcategories \ {cur}) \cup {new}
                       /\ req' = [req EXCEPT ![r] = Answer(q, 200)]
    /\ UNCHANGED <<categories, customers, nextCat, nextSub, nextCust, now, deletedCats, last, tokens>>

\* DELETE /api/subcategories/:id: the id check and SubCategory.findById
DeleteSubCategoryStart(r, id) ==
    /\ req[r].pc = "idle"
    /\ LET q == Request("deleteSubCategory", id, <<>>, "")
       IN req' = [req EXCEPT ![r] =
                IF ~IsValidObjectId(id) THEN Answer(q, 400)
                ELSE IF id \notin SubIds THEN Answer(q, 404)
                ELSE Await(q, "delete")]
    /\ StoreUnchanged

\* DELETE /api/subcategories/:id: SubCategory.findByIdAndDelete
DeleteSubCategoryDelete(r) ==
    /\ req[r].op = "deleteSubCategory" /\ req[r].pc = "delete"
    /\ subcategories' = {s \in subcategories : s.id # req[r].id}
    /\ req' = [req EXCEPT ![r] = Answer(@, 200)]
    /\ UNCHANGED <<categories, customers, nextCat, nextSub, nextCust, now, deletedCats, last, tokens>>

\* GET /api/subcategories/:id: the id check and SubCategory.findById
GetSubCategory(r, id) ==
    /\ req[r].pc = "idle"
    /\ LET q == Request("getSubCategory", id, <<>>, "")
       IN req' = [req EXCEPT ![r] =
                IF ~IsValidObjectId(id) THEN Answer(q, 400)
                ELSE IF id \notin SubIds THEN Answer(q, 404)
                ELSE Answer(q, 200)]
    /\ StoreUnchanged

\* GET /api/subcategories/category/:categoryId: the id check and
\* Category.findById
ListSubCategoriesStart(r, id) ==
    /\ req[r].pc = "idle"
    /\ LET q == Request("listSubCategories", id, <<>>, "")
       IN req' = [req EXCEPT ![r] =
                IF ~IsValidObjectId(id) THEN Answer(q, 400)
                ELSE IF id \notin CatIds THEN Answer(q, 404)
                ELSE Await(q, "find")]
    /\ StoreUnchanged

\* GET /api/subcategories/category/:categoryId: SubCategory.find({ category })
ListSubCategoriesFind(r) ==
    /\ req[r].op = "listSubCategories" /\ req[r].pc = "find"
    /\ req' = [req EXCEPT ![r] = Answer(@, 200)]
    /\ StoreUnchanged

-----------------------------------------------------------------------------
(* Customers: models/Customer.js and the customer handlers of the server.  *)
(* A JSON value is a sequence of one-character strings (a string), a       *)
(* one-element sequence holding a word (an enumerated value, an id, a      *)
(* date), or Null; a field absent from a body is absent from its DOMAIN.   *)

Null == <<"#null">>
Undefined == <<"#undefined">>

CustIdPool == <<"k1", "k2", "k3">>
CustIdSet == {CustIdPool[i] : i \in 1..MaxCustomers}
CustomerIdInputs == CustIdSet \cup {"x9", "bad"}

CustIds == {c.id : c \in customers}
CustomerById(id) == CHOOSE c \in customers : c.id = id

Get(b, f) == IF f \in DOMAIN b THEN b[f] ELSE Undefined

\* JavaScript truthiness of a body value
Truthy(v) == v # Undefined /\ v # Null /\ v # <<>>

StatusEnum == { <<"Active">>, <<"Inactive">>, <<"Pending">>, <<"Suspended">> }
GstStatusEnum == { <<"Paid">>, <<"Not Paid">>, <<"Pay Later">> }
DeliveryStatusEnum == { <<"Pending">>, <<"In Progress">>, <<"Completed">>, <<"Rejected">> }

Digits == {"0", "1", "2", "3", "4", "5", "6", "7", "8", "9"}

\* mutant: the pattern lacks its anchors, /\d{5}/ on a prefix
PhoneRegexTest_Unanchored(v) == Len(v) >= 5 /\ \A i \in 1..5 : v[i] \in Digits

\* /^\d{10}$/.test(phone)
PhoneRegexTest(v) == Len(v) = 10 /\ \A i \in 1..Len(v) : v[i] \in Digits

WordChars == Digits \cup {"a", "A", "b", "x", "y", "o", "c", "m", "_"}

\* the last index of character ch in v, 0 when there is none
LastIndexOf(v, ch) ==
    LET at == {i \in 1..Len(v) : v[i] = ch}
    IN IF at = {} THEN 0 ELSE CHOOSE i \in at : \A j \in at : j <= i

\* /^[\w-\.]+@([\w-]+\.)+[\w-]{2,4}$/ : a local part, one @, dot-separated
\* labels of which the last has 2 to 4 characters
EmailRegexTest(v) ==
    LET ats == {i \in 1..Len(v) : v[i] = "@"}
        at == LastIndexOf(v, "@")
        dot == LastIndexOf(v, ".")
    IN /\ Cardinality(ats) = 1
       /\ at > 1
       /\ \A i \in 1..(at - 1) : v[i] \in WordChars \cup {"-", "."}
       /\ dot > at + 1
       /\ Len(v) - dot \in 2..4
       /\ \A i \in (at + 1)..Len(v) : v[i] \in WordChars \cup {"-", "."}
       /\ \A i \in (at + 1)..dot : v[i] = "." => v[i - 1] \notin {".", "@"}

\* Number(v): a decimal literal converts to itself, the empty string and
\* null to 0, anything else to NaN
IsNumeric(v) ==
    /\ v # <<>>
    /\ \A i \in 1..Len(v) : v[i] \in Digits \/ (i = 1 /\ v[i] = "-" /\ Len(v) > 1)

Zero == <<"0">>

\* the digits d without their leading zeros
RECURSIVE StripZeros(_)
StripZeros(d) == IF Len(d) > 1 /\ Head(d) = "0" THEN StripZeros(Tail(d)) ELSE d

\* Number(v) of a decimal literal v, written without leading zeros
ToNumber(v) ==
    IF Head(v) = "-" THEN <<"-">> \o StripZeros(Tail(v)) ELSE StripZeros(v)

\* mutant: Number(v) without the fallback to 0
NumberOrZero_NoFallback(v) == IF IsNumeric(v) THEN ToNumber(v) ELSE v

\* Number(v) || 0
NumberOrZero(v) ==
    IF IsNumeric(v) /\ \E i \in 1..Len(v) : v[i] \in Digits \ {"0"}
    THEN ToNumber(v) ELSE Zero

IsNegative(v) == v # <<>> /\ Head(v) = "-"

\* dates are named by a word: one in the past and one in the future of
\* every clock value of the model
PastDate == <<"2000-01-01">>
FutureDate == <<"2999-01-01">>
IsDate(v) == v \in {PastDate, FutureDate}

\* mongoose.Types.ObjectId.isValid on a body value
IsValidObjectIdValue(v) == Len(v) = 1 /\ v[1] \notin {"bad", "#null", "#undefined"}

\* email: lowercase: true
LowerCase(v) == IF v = Null THEN Null ELSE LowerName(v)

RequiredFields == {"name", "phone", "address", "serviceCategory", "serviceCategoryName"}

TruthyTrimFields == {"name", "phone", "address", "serviceCategoryName"}
NullableTrimFields == {"email", "city", "state", "zipCode", "serviceSubCategoryName",
                       "serviceNumber", "gstNumber", "notes"}
DateFields == {"dateOfBirth", "deliveryDate", "nextRenewalDate"}
EnumFields == {"status", "gstStatus", "deliveryStatus"}

DataFields == TruthyTrimFields \cup NullableTrimFields \cup DateFields \cup EnumFields
                \cup {"serviceCategory", "serviceSubCategory", "fees"}

EnumOf(f) == IF f = "status" THEN StatusEnum
             ELSE IF f = "gstStatus" THEN GstStatusEnum ELSE DeliveryStatusEnum

EnumDefault(f) == IF f = "status" THEN <<"Active">>
                  ELSE IF f = "gstStatus" THEN <<"Not Paid">> ELSE <<"Pending">>

\* mutant: a falsy serviceSubCategory is set to null, its name is left alone
NormaliseBody_KeepsName(b) ==
    IF ~Truthy(Get(b, "serviceSubCategory"))
    THEN [f \in DOMAIN b \cup {"serviceSubCategory"} |->
             IF f = "serviceSubCategory" THEN Null ELSE b[f]]
    ELSE b

\* "Ensure serviceSubCategory is properly formatted": a falsy serviceSubCategory
\* sets both it and serviceSubCategoryName to null in the body
NormaliseBody(b) ==
    IF ~Truthy(Get(b, "serviceSubCategory"))
    THEN [f \in DOMAIN b \cup {"serviceSubCategory", "serviceSubCategoryName"} |->
             IF f \in {"serviceSubCategory", "serviceSubCategoryName"} THEN Null ELSE b[f]]
    ELSE b

\* mutant: the schema declares no enum on the three enumerated paths
PathValid_NoEnum(f, v) ==
    IF v = Null THEN f \notin RequiredFields
    ELSE CASE f = "phone" -> PhoneRegexTest(v)
           [] f = "email" -> EmailRegexTest(v)
           [] f = "fees" -> ~IsNegative(v)
           [] f = "dateOfBirth" -> IsDate(v) /\ v # FutureDate
           [] f \in {"deliveryDate", "nextRenewalDate"} -> IsDate(v)
           [] f \in RequiredFields -> v # <<>>
           [] OTHER -> TRUE

\* the schema's validators on the value v of path f (a null value passes all
\* but required)
PathValid(f, v) ==
    IF v = Null THEN f \notin RequiredFields
    ELSE CASE f = "phone" -> PhoneRegexTest(v)
           [] f = "email" -> EmailRegexTest(v)
           [] f \in EnumFields -> v \in EnumOf(f)
           [] f = "fees" -> ~IsNegative(v)
           [] f = "dateOfBirth" -> IsDate(v) /\ v # FutureDate
           [] f \in {"deliveryDate", "nextRenewalDate"} -> IsDate(v)
           [] f \in RequiredFields -> v # <<>>
           [] OTHER -> TRUE

\* the schema's setters on path f: trim on the strings, lowercase on email
PathSet(f, v) ==
    IF v = Null THEN v
    ELSE IF f = "email" THEN LowerCase(Trim(v))
    ELSE IF f \in TruthyTrimFields \cup NullableTrimFields THEN Trim(v)
    ELSE v

SystemFields == {"id", "createdAt", "updatedAt"}

\* customerData of POST /api/customers, from the normalised body b
CustomerData(b) ==
    [f \in DataFields |->
        LET v == Get(b, f)
        IN CASE f \in {"name", "phone", "address"} -> Trim(v)
             [] f \in NullableTrimFields \cup {"serviceCategoryName"} ->
                    IF Truthy(v) THEN Trim(v) ELSE Null
             [] f \in DateFields \cup {"serviceCategory", "serviceSubCategory"} ->
                    IF Truthy(v) THEN v ELSE Null
             [] f \in EnumFields -> IF Truthy(v) THEN v ELSE EnumDefault(f)
             [] OTHER -> NumberOrZero(v)]

\* updateData of PUT /api/customers/:id, from the normalised body b; a key
\* whose value is Undefined is removed before the $set
UpdateData(b) ==
    [f \in DataFields |->
        LET v == Get(b, f)
        IN CASE f \in TruthyTrimFields -> IF Truthy(v) THEN Trim(v) ELSE Undefined
             [] f \in NullableTrimFields ->
                    IF v # Undefined THEN (IF Truthy(v) THEN Trim(v) ELSE Null)
                    ELSE Undefined
             [] f = "serviceCategory" -> IF Truthy(v) THEN v ELSE Undefined
             [] f = "serviceSubCategory" -> IF Truthy(v) THEN v ELSE Null
             [] f \in EnumFields -> IF Truthy(v) THEN v ELSE EnumDefault(f)
             [] f \in DateFields ->
                    IF v # Undefined THEN (IF Truthy(v) THEN v ELSE Null)
                    ELSE Undefined
             [] OTHER -> IF v # Undefined THEN NumberOrZero(v) ELSE Undefined]

\* the customer requests are bounded by the clock and the id pool
Answered(op, id, b, k) ==
    /\ last' = [op |-> op, id |-> id, body |-> b, code |-> k, result |-> {}]
    /\ UNCHANGED <<categories, subcategories, nextCat, nextSub, deletedCats, req, tokens>>

\* a request answered with an error body that names the fields of the set out
AnsweredWith(op, id, b, k, out) ==
    /\ last' = [op |-> op, id |-> id, body |-> b, code |-> k, result |-> out]
    /\ UNCHANGED <<categories, subcategories, nextCat, nextSub, deletedCats, req, tokens>>

\* POST /api/customers
CreateCustomer(b0) ==
    /\ nextCust < MaxCustomers
    /\ now < MaxWrites
    /\ LET b == NormaliseBody(b0)
           data == CustomerData(b)
           doc == [f \in DataFields |-> PathSet(f, data[f])]
           id == CustIdPool[nextCust + 1]
           rejected(k, fields) ==
               /\ AnsweredWith("createCustomer", "", b0, k, fields)
               /\ UNCHANGED <<customers, nextCust, now>>
       IN IF Truthy(Get(b, "serviceSubCategory"))
               /\ ~IsValidObjectIdValue(b["serviceSubCategory"])
          THEN rejected(400, {"serviceSubCategory"})
          ELSE IF \E f \in RequiredFields : ~Truthy(Get(b, f))
          THEN rejected(400, {f \in RequiredFields : ~Truthy(Get(b, f))})
          ELSE IF ~PhoneRegexTest(b["phone"]) THEN rejected(400, {"phone"})
          ELSE IF ~IsValidObjectIdValue(b["serviceCategory"]) THEN rejected(500, {})
          ELSE IF \E f \in DataFields : ~PathValid(f, doc[f])
          THEN rejected(400, {f \in DataFields : ~PathValid(f, doc[f])})
          ELSE /\ customers' = customers \cup
                      {[f \in DataFields \cup SystemFields |->
                          IF f = "id" THEN id
                          ELSE IF f \in {"createdAt", "updatedAt"} THEN now + 1
                          ELSE doc[f]]}
               /\ nextCust' = nextCust + 1
               /\ now' = now + 1
               /\ Answered("createCustomer", id, b0, 201)

\* PUT /api/customers/:id
UpdateCustomer(id, b0) ==
    /\ now < MaxWrites
    /\ LET b == NormaliseBody(b0)
           upd == UpdateData(b)
           set == {f \in DataFields : upd[f] # Undefined}
           val == [f \in DataFields |-> PathSet(f, upd[f])]
           rejected(k) == /\ Answered("updateCustomer", id, b0, k)
                          /\ UNCHANGED <<customers, nextCust, now>>
       IN IF ~IsValidObjectId(id) THEN rejected(400)
          ELSE IF Truthy(Get(b, "serviceSubCategory"))
                    /\ ~IsValidObjectIdValue(b["serviceSubCategory"])
          THEN rejected(400)
          ELSE IF Truthy(Get(b, "serviceCategory"))
                    /\ ~IsValidObjectIdValue(b["serviceCategory"])
          THEN rejected(500)
          ELSE IF \E f \in set \cap DateFields : val[f] # Null /\ ~IsDate(val[f])
          THEN rejected(500)
          ELSE IF \E f \in set : ~PathValid(f, val[f]) THEN rejected(400)
          ELSE IF id \notin CustIds THEN rejected(404)
          ELSE /\ customers' =
                     {IF c.id # id THEN c
                      ELSE [f \in DOMAIN c |->
                              IF f \in DataFields /\ upd[f] # Undefined THEN val[f]
                              ELSE IF f = "updatedAt" THEN now + 1
                              ELSE c[f]] : c \in customers}
               /\ now' = now + 1
               /\ UNCHANGED nextCust
               /\ Answered("updateCustomer", id, b0, 200)

\* mutant: the handler does not look at what findByIdAndDelete returned
DeleteCustomer_NoNotFound(id) ==
    /\ LET rejected(k) == /\ Answered("deleteCustomer", id, <<>>, k)
                          /\ UNCHANGED customers
       IN IF ~IsValidObjectId(id) THEN rejected(400)
          ELSE /\ customers' = {c \in customers : c.id # id}
               /\ Answered("deleteCustomer", id, <<>>, 200)
    /\ UNCHANGED <<nextCust, now>>

\* DELETE /api/customers/:id
DeleteCustomer(id) ==
    /\ LET rejected(k) == /\ Answered("deleteCustomer", id, <<>>, k)
                          /\ UNCHANGED customers
       IN IF ~IsValidObjectId(id) THEN rejected(400)
          ELSE IF id \notin CustIds THEN rejected(404)
          ELSE /\ customers' = {c \in customers : c.id # id}
               /\ Answered("deleteCustomer", id, <<>>, 200)
    /\ UNCHANGED <<nextCust, now>>

\* GET /api/customers/:id: Customer.findById, which throws a CastError on an
\* id that is not an ObjectId; the catch answers 500
GetCustomer(id) ==
    /\ Answered("getCustomer", id, <<>>,
                IF ~IsValidObjectId(id) THEN 500
                ELSE IF id \notin CustIds THEN 404 ELSE 200)
    /\ UNCHANGED <<customers, nextCust, now>>

\* the query parameters of the customer list; Undefined is an absent one
SearchInputs == {Undefined, <<"A">>, <<"5">>, <<"z">>, <<"o", "+">>, <<"+">>}
StatusInputs == {Undefined, <<"Active">>, <<"Inactive">>}
ServiceInputs == {Undefined, <<"c1">>, <<"x9">>, <<"bad">>}

ListQueries == [search : SearchInputs, status : StatusInputs, service : ServiceInputs]

\* the store compiles { $regex: search }: a quantifier with nothing to repeat
\* is an error (patterns with two adjacent quantifiers are not in the inputs)
SearchRegexCompiles(p) == p # <<>> => Head(p) # "+"

\* whether p[i..] matches a prefix of s[j..], ignoring case; an atom is a
\* literal character, optionally followed by the quantifier +
RECURSIVE SearchFrom(_, _, _, _)
SearchFrom(p, i, s, j) ==
    IF i > Len(p) THEN TRUE
    ELSE IF i < Len(p) /\ p[i + 1] = "+"
         THEN /\ j <= Len(s)
              /\ LowerChar(p[i]) = LowerChar(s[j])
              /\ (SearchFrom(p, i + 2, s, j + 1) \/ SearchFrom(p, i, s, j + 1))
         ELSE /\ j <= Len(s)
              /\ LowerChar(p[i]) = LowerChar(s[j])
              /\ SearchFrom(p, i + 1, s, j + 1)

\* { field: { $regex: search, $options: 'i' } } on the stored value v: the
\* pattern is not anchored, and a null value matches no pattern
SearchRegexMatches(search, v) ==
    v # Null /\ \E j \in 1..(Len(v) + 1) : SearchFrom(search, 1, v, j)

\* the query document the handler builds, applied to the customer c
QueryMatches(q, c) ==
    /\ Truthy(q.search) =>
          \E f \in {"name", "email", "phone", "serviceNumber"} :
              SearchRegexMatches(q.search, c[f])
    /\ Truthy(q.status) => c["status"] = q.status
    /\ Truthy(q.service) => c["serviceCategory"] = q.service

\* the document { _id, name } that populate puts in the place of a reference
PopulatedDoc(id, name) == <<id, name>>

\* mutant: the display names are taken from the customer's own snapshot fields
PopulateCustomer_FromSnapshot(c) ==
    [f \in DOMAIN c |->
        IF f = "serviceCategory" /\ c[f] # Null
        THEN PopulatedDoc(c[f][1], c["serviceCategoryName"])
        ELSE IF f = "serviceSubCategory" /\ c[f] # Null
        THEN PopulatedDoc(c[f][1], c["serviceSubCategoryName"])
        ELSE c[f]]

\* .populate('serviceCategory', 'name url').populate('serviceSubCategory', 'name'):
\* a reference is replaced by the referenced document as it is stored now, and
\* by null when no document has that id
PopulateCustomer(c) ==
    [f \in DOMAIN c |->
        IF f = "serviceCategory"
        THEN IF c[f] # Null /\ c[f][1] \in CatIds
             THEN PopulatedDoc(c[f][1], CategoryById(c[f][1]).name) ELSE Null
        ELSE IF f = "serviceSubCategory"
        THEN IF c[f] # Null /\ c[f][1] \in SubIds
             THEN PopulatedDoc(c[f][1], SubCategoryById(c[f][1]).name) ELSE Null
        ELSE c[f]]

\* GET /api/customers: the result is the set of the populated documents of the
\* customers found (their order is left out); a pattern the store cannot
\* compile and a service that cannot be cast to an ObjectId throw, and the
\* catch answers 500
ListCustomers(q) ==
    /\ LET fails == \/ Truthy(q.search) /\ ~SearchRegexCompiles(q.search)
                    \/ Truthy(q.service) /\ ~IsValidObjectIdValue(q.service)
       IN last' = [op |-> "listCustomers", id |-> "", body |-> q,
                   code |-> IF fails THEN 500 ELSE 200,
                   result |-> IF fails THEN {}
                              ELSE {PopulateCustomer(c) : c \in {d \in customers : QueryMatches(q, d)}}]
    /\ UNCHANGED <<categories, subcategories, customers, nextCat, nextSub,
                   nextCust, now, deletedCats, req, tokens>>

Phone10 == <<"9", "8", "7", "6", "5", "4", "3", "2", "1", "0">>

MinimalBody ==
    [name |-> <<"b", "o">>, phone |-> Phone10, address |-> <<"x">>,
     serviceCategory |-> <<"c1">>, serviceCategoryName |-> <<"a">>]

FullBody ==
    [name |-> <<"b", "o">>, phone |-> Phone10, address |-> <<"x">>,
     serviceCategory |-> <<"c1">>, serviceCategoryName |-> <<"a">>,
     serviceSubCategory |-> <<"s1">>, serviceSubCategoryName |-> <<"b">>,
     email |-> <<"A", "@", "b", ".", "c", "o">>, city |-> <<"c">>,
     status |-> <<"Inactive">>, gstStatus |-> <<"Paid">>,
     deliveryStatus |-> <<"Completed">>, fees |-> <<"5">>,
     dateOfBirth |-> PastDate, notes |-> <<"y">>]

CreateBodies ==
    { MinimalBody, FullBody,
      [MinimalBody EXCEPT !.phone = <<"1", "2", "3", "4", "5">>],
      [FullBody EXCEPT !.serviceSubCategory = <<"bad">>],
      [FullBody EXCEPT !.serviceCategory = <<"bad">>],
      [FullBody EXCEPT !.status = <<"Bogus">>],
      [gstStatus |-> <<"Bogus">>] @@ MinimalBody,
      [serviceSubCategoryName |-> <<"b">>] @@ MinimalBody,
      [FullBody EXCEPT !.serviceSubCategory = <<>>],
      [fees |-> <<"x">>] @@ MinimalBody,
      [FullBody EXCEPT !.fees = <<"-", "5">>],
      [FullBody EXCEPT !.fees = <<"-", "5">>, !.status = <<"Bogus">>],
      [phone |-> <<"1", "2", "3", "4", "5">>, address |-> <<"x">>,
       serviceCategory |-> <<"c1">>, serviceCategoryName |-> <<"a">>],
      [MinimalBody EXCEPT !.address = <<>>, !.serviceCategoryName = <<>>] }

UpdateBodies ==
    { [notes |-> <<"x">>],
      [notes |-> <<" ", "x">>, city |-> <<>>],
      [status |-> <<"Pending">>],
      [status |-> <<"Bogus">>],
      [fees |-> <<"7">>, name |-> <<"a">>],
      [fees |-> <<"x">>],
      [fees |-> <<"-", "5">>],
      [fees |-> <<"0", "7">>],
      [deliveryStatus |-> <<"Bogus">>],
      [serviceCategory |-> <<"bad">>],
      [serviceSubCategory |-> <<"bad">>],
      [deliveryDate |-> <<"x">>],
      [serviceSubCategoryName |-> <<"b">>],
      [serviceSubCategory |-> <<"s1">>, gstStatus |-> <<"Pay Later">>],
      [status |-> <<"Suspended">>, gstStatus |-> <<"Paid">>,
       deliveryStatus |-> <<"Rejected">>, serviceSubCategory |-> <<"s1">>,
       serviceSubCategoryName |-> <<"a">>, notes |-> Null] }

-----------------------------------------------------------------------------
(* routes/auth.js.  The users collection is written by no route; it holds  *)
(* the users the database was seeded with.                                 *)

Users == { [id |-> "u1", username |-> "ann", password |-> "pw1"],
           [id |-> "u2", username |-> "bob", password |-> "pw2"] }

UsernameInputs == {"", "ann", "eve"}
PasswordInputs == {"", "pw1", "pw2"}

\* expiresIn: '1d', in the seconds of the iat and exp claims
OneDay == 86400

\* mutant: expiresIn: '1h'
Sign_OneHour(user, t) ==
    [userId |-> user.id, username |-> user.username, iat |-> t, exp |-> t + 3600]

\* jwt.sign({ userId, username }, secret, { expiresIn: '1d' }): the payload of
\* the credential signed at the clock value t
Sign(user, t) ==
    [userId |-> user.id, username |-> user.username, iat |-> t, exp |-> t + OneDay]

\* POST /api/auth/login
Login(username, password) ==
    LET found == {u \in Users : u.username = username}
        user == CHOOSE u \in found : TRUE
        creds == [username |-> username, password |-> password]
        answer(id, k, out) ==
            last' = [op |-> "login", id |-> id, body |-> creds, code |-> k,
                     result |-> out]
    IN /\ IF username = "" \/ password = "" THEN answer("", 400, {}) /\ UNCHANGED tokens
          ELSE IF found = {} THEN answer("", 401, {}) /\ UNCHANGED tokens
          ELSE IF user.password # password
          THEN answer(user.id, 401, {}) /\ UNCHANGED tokens
          ELSE /\ answer(user.id, 200, {Sign(user, now)})
               /\ tokens' = tokens \cup {Sign(user, now)}
       /\ UNCHANGED <<categories, subcategories, customers, nextCat, nextSub,
                      nextCust, now, deletedCats, req>>

\* time passes between two requests
Tick ==
    /\ now < MaxWrites
    /\ now' = now + 1
    /\ UNCHANGED <<categories, subcategories, customers, nextCat, nextSub,
                   nextCust, deletedCats, req, last, tokens>>

-----------------------------------------------------------------------------
(* Specifications *)

Init ==
    /\ categories = {}
    /\ subcategories = {}
    /\ customers = {}
    /\ nextCat = 0
    /\ nextSub = 0
    /\ nextCust = 0
    /\ now = 0
    /\ deletedCats = {}
    /\ req = [r \in Slots |-> Idle]
    /\ last = NoRequest
    /\ tokens = {}

\* the steps of the request in slot r
Step(r) ==
    \/ CreateCategorySave(r)
    \/ UpdateCategoryCheck(r)
    \/ UpdateCategorySave(r)
    \/ DeleteCategoryCount(r)
    \/ DeleteCategoryDelete(r)
    \/ CreateSubCategoryCheck(r)
    \/ CreateSubCategorySave(r)
    \/ UpdateSubCategoryFind(r)
    \/ UpdateSubCategoryCheck(r)
    \/ UpdateSubCategorySave(r)
    \/ DeleteSubCategoryDelete(r)
    \/ Finish(r)

\* one request at a time: slot 1 alone is used
Next ==
    \/ \E n \in NameInputs : CreateCategoryStart(1, n)
    \/ \E id \in CategoryIdInputs, n \in NameInputs : UpdateCategoryStart(1, id, n)
    \/ \E id \in CategoryIdInputs : DeleteCategoryStart(1, id)
    \/ \E n \in NameInputs, c \in CategoryRefInputs : CreateSubCategoryStart(1, n, c)
    \/ \E id \in SubCategoryIdInputs, n \in NameInputs, c \in CategoryRefInputs :
           UpdateSubCategoryStart(1, id, n, c)
    \/ \E id \in SubCategoryIdInputs : DeleteSubCategoryStart(1, id)
    \/ \E id \in CategoryIdInputs : GetCategory(1, id)
    \/ \E id \in SubCategoryIdInputs : GetSubCategory(1, id)
    \/ \E id \in CategoryIdInputs : ListSubCategoriesStart(1, id)
    \/ ListSubCategoriesFind(1)
    \/ Step(1)

Spec == Init /\ [][Next]_vars

\* requests of all slots interleave at their awaits
NextConc ==
    \E r \in Slots :
        \/ \E n \in ConcNameInputs : CreateCategoryStart(r, n)
        \/ \E id \in CatIdSet, n \in ConcNameInputs : UpdateCategoryStart(r, id, n)
        \/ \E id \in CatIdSet : DeleteCategoryStart(r, id)
        \/ \E n \in ConcNameInputs, c \in CatIdSet : CreateSubCategoryStart(r, n, c)
        \/ \E id \in SubIdSet, n \in ConcNameInputs, c \in CatIdSet :
               UpdateSubCategoryStart(r, id, n, c)
        \/ \E id \in SubIdSet : DeleteSubCategoryStart(r, id)
        \/ Step(r)

SpecConc == Init /\ [][NextConc]_vars

\* the customer handlers make one store round trip each
NextCust ==
    \/ \E b \in CreateBodies : CreateCustomer(b)
    \/ \E id \in CustomerIdInputs, b \in UpdateBodies : UpdateCustomer(id, b)
    \/ \E id \in CustomerIdInputs : DeleteCustomer(id)
    \/ \E id \in CustomerIdInputs : GetCustomer(id)
    \/ \E q \in ListQueries : ListCustomers(q)

SpecCust == Init /\ [][NextCust]_vars

\* the bodies of the customer requests of the whole application
AppCreateBodies ==
    {MinimalBody, FullBody, [MinimalBody EXCEPT !.phone = <<"1", "2", "3", "4", "5">>]}
AppUpdateBodies == {[notes |-> <<"x">>], [status |-> <<"Bogus">>]}
AppListQueries == {[search |-> Undefined, status |-> Undefined, service |-> Undefined]}

\* the whole application, one request at a time: a request starts when the
\* one before it has been answered
NextApp ==
    \/ \E n \in ConcNameInputs : CreateCategoryStart(1, n)
    \/ \E id \in CategoryIdInputs, n \in ConcNameInputs : UpdateCategoryStart(1, id, n)
    \/ \E id \in CategoryIdInputs : DeleteCategoryStart(1, id)
    \/ \E n \in ConcNameInputs, c \in CategoryRefInputs : CreateSubCategoryStart(1, n, c)
    \/ \E id \in SubCategoryIdInputs, n \in ConcNameInputs, c \in CategoryRefInputs :
           UpdateSubCategoryStart(1, id, n, c)
    \/ \E id \in SubCategoryIdInputs : DeleteSubCategoryStart(1, id)
    \/ \E id \in CategoryIdInputs : GetCategory(1, id)
    \/ \E id \in SubCategoryIdInputs : GetSubCategory(1, id)
    \/ \E id \in CategoryIdInputs : ListSubCategoriesStart(1, id)
    \/ ListSubCategoriesFind(1)
    \/ Step(1)
    \/ req[1].pc = "idle" /\ \E b \in AppCreateBodies : CreateCustomer(b)
    \/ req[1].pc = "idle" /\ \E id \in CustomerIdInputs, b \in AppUpdateBodies : UpdateCustomer(id, b)
    \/ req[1].pc = "idle" /\ \E id \in CustomerIdInputs : DeleteCustomer(id)
    \/ req[1].pc = "idle" /\ \E id \in CustomerIdInputs : GetCustomer(id)
    \/ req[1].pc = "idle" /\ \E q \in AppListQueries : ListCustomers(q)

SpecApp == Init /\ [][NextApp]_vars

\* logins, the passing of time, and the creates and deletes of the three
\* collections
NextAuth ==
    \/ \E u \in UsernameInputs, pw \in PasswordInputs : Login(u, pw)
    \/ Tick
    \/ CreateCategoryStart(1, <<"a">>)
    \/ CreateCategorySave(1)
    \/ \E c \in CatIdSet : CreateSubCategoryStart(1, <<"a">>, c)
    \/ CreateSubCategoryCheck(1)
    \/ CreateSubCategorySave(1)
    \/ \E id \in SubIdSet : DeleteSubCategoryStart(1, id)
    \/ DeleteSubCategoryDelete(1)
    \/ Finish(1)
    \/ CreateCustomer(MinimalBody)
    \/ \E id \in CustIdSet : DeleteCustomer(id)

SpecAuth == Init /\ [][NextAuth]_vars

-----------------------------------------------------------------------------
(* Properties *)

\* GET /api/categories: Category.find()
ListCategories == categories

\* the step answers the request of slot r
Completes(r) == req[r].pc # "done" /\ req'[r].pc = "done"

\* C1: after any sequence of create/update/delete category requests run one
\* at a time, no two stored categories have names equal ignoring case.
C1_NoCaseInsensitiveDuplicate ==
    \A c1, c2 \in categories : c1.id # c2.id => ~EqIgnoreCase(c1.name, c2.name)

\* C2: under any interleaving of create/update category requests, with the
\* store enforcing the unique key on name, no two committed categories have
\* names equal ignoring case.
C2_UniqueKeyIsBackstop ==
    \A c1 \in categories : \A c2 \in categories \ {c1} :
        LowerName(c1.name) # LowerName(c2.name)

\* C3: deleting a stored category referenced by a stored subcategory answers
\* 400 and leaves categories and subcategories as they were; deleting a stored
\* category that no subcategory references answers 200 and the category is in
\* no later category list.
C3_DeleteCategoryGuard ==
    /\ [](deletedCats \cap {c.id : c \in ListCategories} = {})
    /\ [][(Completes(1) /\ req'[1].op = "deleteCategory" /\ req'[1].id \in CatIds) =>
            IF SubCategoriesCount(req'[1].id) > 0
            THEN /\ req'[1].code = 400
                 /\ categories' = categories
                 /\ subcategories' = subcategories
            ELSE /\ req'[1].code = 200
                 /\ req'[1].id \notin {c.id : c \in categories'}
                 /\ req'[1].id \in deletedCats'
                 /\ subcategories' = subcategories]_vars

\* a delete of a category that a subcategory references was answered 400,
\* after another category had been deleted
C3_Witness ==
    /\ req[1].op = "deleteCategory" /\ req[1].pc = "done" /\ req[1].code = 400
    /\ SubCategoriesCount(req[1].id) > 0
    /\ deletedCats # {}

\* C4: after any sequence of category and subcategory requests run one at a
\* time, the category of every stored subcategory is a stored category.
C4_SubCategoryReferencesStored ==
    \A s \in subcategories : s.category \in CatIds

\* a subcategory is stored, a category has been deleted, and a delete of the
\* subcategory's category has just been refused
C4_Witness ==
    /\ subcategories # {}
    /\ deletedCats # {}
    /\ req[1].op = "deleteCategory" /\ req[1].code = 400

C6_SubCategoryReference ==
    [][Completes(1) =>
        LET q == req'[1]
        IN /\ (/\ q.op \in {"createSubCategory", "updateSubCategory"}
               /\ IsValidObjectId(q.cat) /\ q.cat \notin CatIds)
                 => (/\ q.code = 400
                     /\ subcategories' = subcategories
                     /\ categories' = categories)
           /\ (/\ q.op = "createSubCategory"
               /\ q.cat \in CatIds /\ q.name # <<>>
               /\ ~\E s \in subcategories :
                      s.category = q.cat /\ EqIgnoreCase(s.name, q.name))
                 => (/\ q.code = 201
                     /\ [id |-> q.id, name |-> q.name, category |-> q.cat]
                           \in subcategories')]_vars

\* C7: creating subcategories of one name in two different stored categories
\* succeeds both times; creating a second subcategory with the name and the
\* category of a stored one answers 400 and leaves the subcategories unchanged.
C7_SameNamePerCategory ==
    [][(/\ Completes(1) /\ req'[1].op = "createSubCategory"
        /\ req'[1].cat \in CatIds /\ req'[1].name # <<>>) =>
        LET q == req'[1]
            sameName == {s \in subcategories : s.name = q.name}
        IN /\ (\E s \in sameName : s.category = q.cat)
                 => (q.code = 400 /\ subcategories' = subcategories)
           /\ (sameName # {} /\ \A s \in subcategories : s.category # q.cat)
                 => q.code = 201]_vars

\* C8: after any sequence of completed create/update subcategory requests, no
\* two stored subcategories have the same category and names equal ignoring
\* case; and an update that re-saves a subcategory with its own name and
\* category is never refused as a duplicate.
C8_UniquePerCategory ==
    /\ [](\A s1, s2 \in subcategories :
             (s1.id # s2.id /\ s1.category = s2.category)
                 => ~EqIgnoreCase(s1.name, s2.name))
    /\ [][(/\ Completes(1) /\ req'[1].op = "updateSubCategory"
           /\ req'[1].id \in SubIds
           /\ req'[1].name = SubCategoryById(req'[1].id).name
           /\ req'[1].cat = SubCategoryById(req'[1].id).category)
             => req'[1].code = 200]_vars

\* the customer the last request named, before and after the step
Before(id) == CHOOSE c \in customers : c.id = id
After(id) == CHOOSE c \in customers' : c.id = id

\* the step is a customer update answered 200
UpdatedCustomer ==
    /\ now' # now
    /\ last'.op = "updateCustomer" /\ last'.code = 200

\* C9: updating a stored customer with a body holding only notes leaves every
\* other stored field unchanged and sets updatedAt to a later timestamp.
C9_NotesOnlyUpdate ==
    [][(UpdatedCustomer /\ DOMAIN last'.body = {"notes"}) =>
        /\ \A f \in (DataFields \ {"notes"}) \cup {"id", "createdAt"} :
              After(last'.id)[f] = Before(last'.id)[f]
        /\ After(last'.id)["updatedAt"] > Before(last'.id)["updatedAt"]]_vars

\* C10: on an update, status, gstStatus and deliveryStatus are set
\* to their defaults when omitted and every other field absent from the input
\* keeps its stored value.
C10_OnlyEnumsDefaulted ==
    [][UpdatedCustomer =>
        \A f \in DataFields \ DOMAIN last'.body :
            After(last'.id)[f] =
                IF f \in EnumFields THEN EnumDefault(f) ELSE Before(last'.id)[f]]_vars

\* the body of a customer update passes the checks the handler and the
\* schema make on it
UpdateBodyPasses(b0) ==
    LET b == NormaliseBody(b0)
        upd == UpdateData(b)
        set == {f \in DataFields : upd[f] # Undefined}
        val == [f \in set |-> PathSet(f, upd[f])]
    IN /\ Truthy(Get(b, "serviceSubCategory")) => IsValidObjectIdValue(b["serviceSubCategory"])
       /\ Truthy(Get(b, "serviceCategory")) => IsValidObjectIdValue(b["serviceCategory"])
       /\ \A f \in set \cap DateFields : val[f] = Null \/ IsDate(val[f])
       /\ \A f \in set : PathValid(f, val[f])

\* the stored ids of the collection an operation's identifier names
StoredIdsOf(op) ==
    IF op \in {"getCategory", "updateCategory", "deleteCategory", "listSubCategories"}
    THEN CatIds
    ELSE IF op \in {"getSubCategory", "updateSubCategory", "deleteSubCategory"}
    THEN SubIds
    ELSE CustIds

\* C11: every operation that takes an identifier answers 400 to a malformed
\* identifier, with the store untouched, and 404 to a well-formed identifier
\* of no stored record (for an update: when its body is valid).
C11_IdentifierChecks ==
    [][/\ (Completes(1) /\ req'[1].op \in
                {"getCategory", "updateCategory", "deleteCategory", "listSubCategories",
                 "getSubCategory", "updateSubCategory", "deleteSubCategory"}) =>
            LET q == req'[1]
                bodyValid ==
                    /\ q.op \in {"updateCategory", "updateSubCategory"} => q.name # <<>>
                    /\ q.op = "updateSubCategory" => CategoryIdValidates(q.cat)
            IN /\ ~IsValidObjectId(q.id) =>
                    (/\ q.code = 400
                     /\ UNCHANGED <<categories, subcategories, customers>>)
               /\ (IsValidObjectId(q.id) /\ q.id \notin StoredIdsOf(q.op) /\ bodyValid)
                     => q.code = 404
       /\ (last' # last /\ last'.op \in {"getCustomer", "updateCustomer", "deleteCustomer"}) =>
            /\ ~IsValidObjectId(last'.id) =>
                    (/\ last'.code = 400
                     /\ UNCHANGED <<categories, subcategories, customers>>)
            /\ (/\ IsValidObjectId(last'.id) /\ last'.id \notin CustIds
                /\ last'.op = "updateCustomer" => UpdateBodyPasses(last'.body))
                  => last'.code = 404]_vars

\* C12: deleting a stored subcategory that a stored customer has as its
\* serviceSubCategory answers 400 and leaves the subcategory stored; a
\* subcategory no customer references is deleted.
C12_DeleteSubCategoryGuard ==
    [][(Completes(1) /\ req'[1].op = "deleteSubCategory" /\ req'[1].id \in SubIds) =>
        IF \E c \in customers : c["serviceSubCategory"] = <<req'[1].id>>
        THEN /\ req'[1].code = 400
             /\ subcategories' = subcategories
        ELSE /\ req'[1].code = 200
             /\ req'[1].id \notin {s.id : s \in subcategories'}]_vars

\* C13: a create-category request with a non-empty name that equals no stored
\* category's name ignoring case answers 201, and the category list then
\* holds the new category exactly once.
C13_CreateCategoryListed ==
    [][(/\ Completes(1) /\ req'[1].op = "createCategory"
        /\ req'[1].name # <<>>
        /\ \A c \in categories : ~EqIgnoreCase(c.name, req'[1].name)) =>
        /\ req'[1].code = 201
        /\ Cardinality({c \in ListCategories' : c.name = req'[1].name}) = 1
        /\ Cardinality({c \in ListCategories' : c.id = req'[1].id}) = 1]_vars

\* the step answers a customer request of kind op
CustomerStep(op) ==
    /\ last'.op = op
    /\ last' # last \/ customers' # customers

\* apart from the phone, the body of a customer create is valid: the required
\* fields are present and valid and every optional field given is valid
CreateBodyPasses(b0) ==
    LET b == NormaliseBody(b0)
        data == CustomerData(b)
        doc == [f \in DataFields |-> PathSet(f, data[f])]
    IN /\ Truthy(Get(b, "serviceSubCategory")) => IsValidObjectIdValue(b["serviceSubCategory"])
       /\ \A f \in RequiredFields : Truthy(Get(b, f))
       /\ IsValidObjectIdValue(b["serviceCategory"])
       /\ \A f \in DataFields \ {"phone"} : PathValid(f, doc[f])

\* a string of exactly ten decimal digits
IsTenDigits(v) == Len(v) = 10 /\ \A i \in 1..Len(v) : v[i] \in Digits

\* C14: a customer create whose phone is not exactly 10 digits answers 400 and
\* stores no customer; a create with a 10-digit phone in an otherwise valid
\* body answers 201 and stores exactly one new customer.
C14_PhoneFormat ==
    [][CustomerStep("createCustomer") =>
        LET b == last'.body
        IN /\ ("phone" \in DOMAIN b /\ ~IsTenDigits(b["phone"]))
                 => (last'.code = 400 /\ customers' = customers)
           /\ ("phone" \in DOMAIN b /\ IsTenDigits(b["phone"]) /\ CreateBodyPasses(b))
                 => (/\ last'.code = 201
                     /\ customers \subseteq customers'
                     /\ Cardinality(customers' \ customers) = 1
                     /\ \A c \in customers' \ customers :
                            c.id = last'.id /\ c["phone"] = b["phone"])]_vars

\* a create with a 10-digit phone has stored its customer
C14_Witness ==
    /\ last.op = "createCustomer" /\ last.code = 201
    /\ IsTenDigits(last.body["phone"])
    /\ \E c \in customers : c.id = last.id /\ c["phone"] = last.body["phone"]

\* C15: a customer create whose body omits serviceSubCategory, or gives it
\* as the empty string, stores the customer with serviceSubCategory = null and
\* serviceSubCategoryName = null, whatever serviceSubCategoryName the body had.
C15_SubCategoryNormalised ==
    [][(/\ CustomerStep("createCustomer") /\ last'.code = 201
        /\ Get(last'.body, "serviceSubCategory") \in {Undefined, <<>>}) =>
        \E c \in customers' \ customers :
            /\ c.id = last'.id
            /\ c["serviceSubCategory"] = Null
            /\ c["serviceSubCategoryName"] = Null]_vars

\* a create that named a serviceSubCategoryName but no serviceSubCategory has
\* stored its customer
C15_Witness ==
    /\ last.op = "createCustomer" /\ last.code = 201
    /\ Get(last.body, "serviceSubCategory") \in {Undefined, <<>>}
    /\ Truthy(Get(last.body, "serviceSubCategoryName"))
    /\ \E c \in customers : c.id = last.id /\ c["serviceSubCategoryName"] = Null

\* the enumerated fields to which body b gives a value outside the fixed set
BadEnumFields(b) ==
    {f \in EnumFields \cap DOMAIN b : Truthy(b[f]) /\ b[f] \notin EnumOf(f)}

\* body b without the fields of the set fs
Without(b, fs) == [f \in DOMAIN b \ fs |-> b[f]]

\* the step answers a customer create or update
CreateOrUpdateStep == CustomerStep("createCustomer") \/ CustomerStep("updateCustomer")

RestValid(op, id, b0, fs) ==
    IF op = "createCustomer"
    THEN /\ "phone" \in DOMAIN b0 /\ IsTenDigits(b0["phone"])
         /\ CreateBodyPasses(Without(b0, fs))
    ELSE id \in CustIds /\ UpdateBodyPasses(Without(b0, fs))

ContainsIgnoreCase(s, t) ==
    \E j \in 1..(Len(s) - Len(t) + 1) :
        LowerName(SubSeq(s, j, j + Len(t) - 1)) = LowerName(t)

\* customer c satisfies the filters of the list query q
SatisfiesFilters(q, c) ==
    /\ Truthy(q.status) => c["status"] = q.status
    /\ Truthy(q.service) => c["serviceCategory"] = q.service
    /\ Truthy(q.search) =>
          \E f \in {"name", "email", "phone", "serviceNumber"} :
              c[f] # Null /\ ContainsIgnoreCase(c[f], q.search)

\* C18: the customer list returns exactly the stored customers that satisfy
\* every filter given: status equal, serviceCategory equal, and search a
\* case-insensitive substring of name, email, phone or serviceNumber; an
\* absent filter imposes nothing.
C18_ListFilters ==
    [][CustomerStep("listCustomers") =>
        /\ last'.code = 200
        /\ {row.id : row \in last'.result} =
              {c.id : c \in {d \in customers : SatisfiesFilters(last'.body, d)}}]_vars

\* the step answers a login request
LoginStep == last'.op = "login" /\ (last' # last \/ tokens' # tokens)

\* one day, in seconds
SecondsPerDay == 24 * 60 * 60

\* C19: a login with a stored username and another password than the stored
\* one, or with a username that is not stored, answers 401 and issues no
\* credential; a login with a stored username and its password returns a
\* credential bound to the user's id and username that expires exactly one
\* day after it was issued.
C19_Login ==
    [][LoginStep =>
        LET u == last'.body.username
            p == last'.body.password
            stored == {x \in Users : x.username = u}
        IN /\ (u # "" /\ p # "" /\ \A x \in stored : x.password # p) =>
                (/\ last'.code = 401
                 /\ last'.result = {}
                 /\ tokens' = tokens)
           /\ \A x \in stored : x.password = p =>
                (/\ last'.code = 200
                 /\ Cardinality(last'.result) = 1
                 /\ \A t \in last'.result :
                        /\ t.userId = x.id /\ t.username = u
                        /\ t.iat = now
                        /\ t.exp = t.iat + SecondsPerDay
                 /\ tokens' = tokens \cup last'.result)]_vars

\* a login with the stored password has returned a credential, after the
\* clock had moved
C19_Witness ==
    /\ last.op = "login" /\ last.code = 200
    /\ now > 0
    /\ \E t \in last.result : t \in tokens /\ t.iat = now /\ t.username = last.body.username

\* C20: a step changes the stored categories, subcategories or customers only
\* when a credential has been issued and has not expired, which a request
\* that carries an issued, unexpired credential needs.
C20_MutationNeedsCredential ==
    [][<<categories, subcategories, customers>>' # <<categories, subcategories, customers>>
          => \E t \in tokens : now < t.exp]_vars

\* C21: no step of a category or subcategory update changes a stored customer,
\* so the customers' serviceCategoryName and serviceSubCategoryName stay as
\* their own last write left them; and every row of a customer list carries,
\* in its resolved serviceCategory and serviceSubCategory, the name the
\* referenced category and subcategory have when the list is made.
C21_SnapshotAndResolvedNames ==
    [][/\ (\/ req[1].op \in {"updateCategory", "updateSubCategory"}
           \/ req'[1].op \in {"updateCategory", "updateSubCategory"})
             => customers' = customers
       /\ (CustomerStep("listCustomers") /\ last'.code = 200) =>
            \A row \in last'.result :
                LET c == CustomerById(row.id)
                IN /\ \A f \in {"serviceCategoryName", "serviceSubCategoryName"} :
                          row[f] = c[f]
                   /\ \A k \in categories :
                          c["serviceCategory"] = <<k.id>> =>
                              row["serviceCategory"] = <<k.id, k.name>>
                   /\ \A k \in subcategories :
                          c["serviceSubCategory"] = <<k.id>> =>
                              row["serviceSubCategory"] = <<k.id, k.name>>]_vars

\* a category has been renamed while a customer references it: the customer
\* still holds the name it was written with, and the list made before the
\* rename carried the name the category had then
C21_Witness ==
    /\ req[1].op = "updateCategory" /\ req[1].pc = "done" /\ req[1].code = 200
    /\ req[1].name # req[1].sname
    /\ \E c \in customers :
          /\ c["serviceCategory"] = <<req[1].id>>
          /\ c["serviceCategoryName"] = req[1].sname
          /\ CategoryById(req[1].id).name = req[1].name
          /\ last.op = "listCustomers" /\ last.code = 200
          /\ \E row \in last.result :
                row.id = c.id /\ row["serviceCategory"] = <<req[1].id, req[1].sname>>

\* C22: deleting a customer by the well-formed id of a stored customer answers
\* 200 whatever the customer holds, removes that customer alone and leaves
\* the other customers, the categories and the subcategories as they were;
\* with a well-formed id of no stored customer it answers 404 and changes
\* nothing; and an id the store has generated and that is no longer stored
\* is never stored again, so a second delete of it answers 404.
C22_DeleteCustomer ==
    [][/\ (CustomerStep("deleteCustomer") /\ IsValidObjectId(last'.id)) =>
            IF last'.id \in CustIds
            THEN /\ last'.code = 200
                 /\ customers' = customers \ {CustomerById(last'.id)}
                 /\ Cardinality(customers') = Cardinality(customers) - 1
                 /\ UNCHANGED <<categories, subcategories>>
            ELSE /\ last'.code = 404
                 /\ UNCHANGED <<categories, subcategories, customers>>
       /\ \A i \in 1..nextCust :
              CustIdPool[i] \notin CustIds => CustIdPool[i] \notin {c.id : c \in customers'}]_vars

\* a customer has been deleted while another customer and a subcategory are
\* stored
C22_Witness ==
    /\ last.op = "deleteCustomer" /\ last.code = 200
    /\ last.id \notin CustIds
    /\ customers # {}
    /\ subcategories # {}

\* C23: when the save of a category or subcategory create is rejected by the
\* store because the unique key is taken, the request is answered with an
\* input error (400 or 409), not with the 500 of an unexpected failure.
C23_DuplicateKeySurfaced ==
    [][\A r \in Slots :
        (/\ Completes(r) /\ req[r].pc = "save"
         /\ \/ req[r].op = "createCategory" /\ CategoryKeyTaken(req[r].name, "")
            \/ req[r].op = "createSubCategory"
                   /\ SubCategoryKeyTaken(req[r].name, req[r].cat, ""))
          => req'[r].code \in {400, 409}]_vars

\* the fields of a customer create body that break a rule: a required field
\* missing or empty, a phone that is not ten digits, a reference that is not
\* a well-formed identifier, an enumerated value outside its set, negative
\* fees, a malformed email, a date of birth in the future
ViolatedFields(b) ==
    {f \in DataFields :
        LET v == Get(b, f)
        IN \/ f \in RequiredFields /\ ~Truthy(v)
           \/ f = "phone" /\ Truthy(v) /\ ~IsTenDigits(v)
           \/ f \in {"serviceCategory", "serviceSubCategory"}
                 /\ Truthy(v) /\ ~IsValidObjectIdValue(v)
           \/ f \in EnumFields /\ Truthy(v) /\ v \notin EnumOf(f)
           \/ f = "fees" /\ Truthy(v) /\ IsNumeric(v) /\ IsNegative(v)
           \/ f = "email" /\ Truthy(v) /\ ~EmailRegexTest(LowerName(Trim(v)))
           \/ f = "dateOfBirth" /\ v = FutureDate}

\* C24: a customer create whose body breaks the rules of two or more fields
\* answers 400 with a failure that lists every one of those fields.
C24_EveryViolationListed ==
    [][(CustomerStep("createCustomer") /\ Cardinality(ViolatedFields(last'.body)) >= 2) =>
        /\ last'.code = 400
        /\ last'.result = ViolatedFields(last'.body)]_vars

\* C25: a customer create or update whose serviceCategory is given but is not
\* a well-formed identifier answers 400 and stores or changes no customer.
C25_MalformedServiceCategory ==
    [][(/\ CreateOrUpdateStep
        /\ Truthy(Get(last'.body, "serviceCategory"))
        /\ ~IsValidObjectIdValue(last'.body["serviceCategory"])) =>
        /\ last'.code = 400
        /\ customers' = customers]_vars

\* C26: with the requests run one at a time, the stored categories,
\* subcategories and customers change only in the step that answers a create,
\* update or delete request, and that request is not answered 400 or 404: a
\* request answered 400 or 404 has written nothing.
C26_RejectedWritesNothing ==
    [][<<categories, subcategories, customers>>' # <<categories, subcategories, customers>> =>
        \/ /\ Completes(1)
           /\ req'[1].code \notin {400, 404}
           /\ last' = last
        \/ /\ req' = req
           /\ last'.op \in {"createCustomer", "updateCustomer", "deleteCustomer"}
           /\ last'.code \notin {400, 404}]_vars

\* a subcategory update and a customer update have both been answered 400
\* while a category, a subcategory and a customer are stored
C26_Witness ==
    /\ req[1].op = "updateSubCategory" /\ req[1].pc = "done" /\ req[1].code = 400
    /\ req[1].id \in SubIds
    /\ last.op = "updateCustomer" /\ last.code = 400 /\ last.id \in CustIds
    /\ categories # {}

\* C27: the delete of a stored category is refused exactly when a stored
\* subcategory references it, whatever the customers hold: a category that
\* customers reference and no subcategory does is deleted and the customers
\* stay as they were; and a customer create with a valid body succeeds
\* whether or not its serviceCategory and serviceSubCategory are stored.
C27_DeleteCategoryIgnoresCustomers ==
    [][/\ (Completes(1) /\ req'[1].op = "deleteCategory" /\ req'[1].id \in CatIds) =>
            /\ req'[1].code = IF SubCategoriesCount(req'[1].id) > 0 THEN 400 ELSE 200
            /\ req'[1].code = 200 => req'[1].id \notin {c.id : c \in categories'}
            /\ customers' = customers
       /\ (/\ CustomerStep("createCustomer")
           /\ IsTenDigits(Get(last'.body, "phone"))
           /\ CreateBodyPasses(last'.body)) =>
            /\ last'.code = 201
            /\ \E c \in customers' \ customers :
                  /\ c["serviceCategory"] = last'.body["serviceCategory"]
                  /\ c["serviceSubCategory"] = NormaliseBody(last'.body)["serviceSubCategory"]]_vars

\* a category has been deleted while a customer references it, and the
\* customer still holds the reference; the customer's subcategory was never
\* stored
C27_Witness ==
    /\ req[1].op = "deleteCategory" /\ req[1].pc = "done" /\ req[1].code = 200
    /\ req[1].id \in deletedCats /\ req[1].id \notin CatIds
    /\ \E c \in customers :
          /\ c["serviceCategory"] = <<req[1].id>>
          /\ c["serviceSubCategory"] # Null
          /\ nextSub = 0

=============================================================================
